---- MODULE Spec2Model ----
(***************************************************************************)
(* Model of the two command-line tools of the repository:                  *)
(*   convert_to_onnx.py : convert_checkpoints_to_onnx() and its __main__   *)
(*   verify_onnx.py     : verify_onnx_exports(), analyze_onnx_model(),     *)
(*                        get_file_size_mb() and its __main__              *)
(* Both are sequential programs.  The external collaborators (the file     *)
(* system, YOLO(...), model.export(...), onnx.load(...)) are modelled as   *)
(* nondeterministic choices over the results they can hand back.           *)
(* Standard output is the sequence `out` of printed records, and `calls`   *)
(* is the sequence of requests made to the external capabilities.          *)
(***************************************************************************)
EXTENDS Integers, Sequences, FiniteSets, TLC

VARIABLES
    tool,                   \* which script is running: "converter" | "verifier"
    pc,                     \* position of the running script
    fs_dir,                 \* Path("checkpoints").exists()
    fs_files,               \* the file names present in checkpoints/
    out,                    \* lines printed so far
    calls,                  \* requests made to the external capabilities, with their results
    checkpoint_files,       \* convert_to_onnx.py:23
    idx,                    \* position of the for loop (1-based)
    successful_conversions, \* convert_to_onnx.py:35
    failed_conversions,     \* convert_to_onnx.py:36
    success,                \* value returned by the main routine
    exit_code,              \* process exit status, -1 while running
    onnx_files,             \* verify_onnx.py:55
    todo                    \* sorted(onnx_files), verify_onnx.py:63

vars == <<tool, pc, fs_dir, fs_files, out, calls, checkpoint_files, idx,
          successful_conversions, failed_conversions, success, exit_code,
          onnx_files, todo>>

-----------------------------------------------------------------------------
(* Bounds of the model *)

\* most files placed in checkpoints/ before the converter starts
MaxCheckpoints == 2

\* most files placed in checkpoints/ before the verifier starts
MaxFiles == 2

\* most output tensors a parsed model declares
MaxOutputs == 2

-----------------------------------------------------------------------------
(* File names.  A name is stem + "." + ext. *)

File(stem, ext) == [stem |-> stem, ext |-> ext]

\* ASCII codes of the stems used, for the comparison that sorted() makes
Codes ==
    [ best     |-> <<98, 101, 115, 116>>,
      yolo11n  |-> <<121, 111, 108, 111, 49, 49, 110>>,
      yolo11s  |-> <<121, 111, 108, 111, 49, 49, 115>>,
      yolov10n |-> <<121, 111, 108, 111, 118, 49, 48, 110>>,
      yolov10s |-> <<121, 111, 108, 111, 118, 49, 48, 115>>,
      yolov8n  |-> <<121, 111, 108, 111, 118, 56, 110>>,
      yolov9s  |-> <<121, 111, 108, 111, 118, 57, 115>>,
      pt       |-> <<112, 116>>,
      onnx     |-> <<111, 110, 110, 120>> ]

\* the characters of a file name
NameChars(f) == Codes[f.stem] \o <<46>> \o Codes[f.ext]

\* str.__lt__ : lexicographic comparison by code point
StrLess(a, b) ==
    \E k \in 1..(Len(a) + 1) :
        /\ \A j \in 1..(k - 1) : j <= Len(b) /\ a[j] = b[j]
        /\ \/ k = Len(a) + 1 /\ Len(b) >= k
           \/ k <= Len(a) /\ k <= Len(b) /\ a[k] < b[k]

\* PurePath.__lt__ for two paths of the same directory
PathLess(f, g) == StrLess(NameChars(f), NameChars(g))

\* every ordering of a set of files: a directory scan promises no order
Orderings(S) ==
    { s \in [1..Cardinality(S) -> S] : \A i, j \in 1..Cardinality(S) : i # j => s[i] # s[j] }

\* Path.glob("*." + ext): the matching files of the directory, none when the
\* directory is missing
Glob(ext) == IF fs_dir THEN { f \in fs_files : f.ext = ext } ELSE {}

\* bytes of a file on disk
FileBytes ==
    [ best     |-> 262144,
      yolo11n  |-> 10905190,
      yolo11s  |-> 38168166,
      yolov10n |-> 9437184,
      yolov10s |-> 29884416,
      yolov8n  |-> 12845056,
      yolov9s  |-> 28940697 ]

Mebibyte == 1048576

\* os.path.getsize(p) / (1024 * 1024) printed with the format .1f: the quotient
\* is exact in binary floating point and the format rounds half to even.
\* The result is in tenths of a mebibyte.
SizeTenths(bytes) ==
    LET q == (bytes * 10) \div Mebibyte
        r == (bytes * 10) % Mebibyte
    IN  IF 2 * r > Mebibyte THEN q + 1
        ELSE IF 2 * r < Mebibyte THEN q
        ELSE IF q % 2 = 0 THEN q ELSE q + 1

\* get_file_size_mb(file_path) as printed
get_file_size_mb(f) == SizeTenths(FileBytes[f.stem])

-----------------------------------------------------------------------------
(* The converter: convert_to_onnx.py *)

\* stems of the checkpoint files that may lie in the directory
CheckpointStems == {"yolo11n", "yolov8n", "yolov10s", "best"}

\* the files that may lie in the directory before the converter runs
ConverterNames == {File(s, "pt") : s \in CheckpointStems} \cup {File("best", "onnx")}

\* messages of the exceptions the external capability raises
ErrorMessages == {"corrupt checkpoint", "unsupported operator"}

\* results of YOLO(str(checkpoint_file))
LoadResults == {[ok |-> TRUE, msg |-> ""]} \cup {[ok |-> FALSE, msg |-> m] : m \in ErrorMessages}

\* results of model.export(...): returns a path or raises; `wrote` tells whether
\* it left a file on disk
ExportResults ==
    {[ok |-> TRUE, msg |-> "", wrote |-> w] : w \in BOOLEAN}
    \cup {[ok |-> FALSE, msg |-> m, wrote |-> w] : m \in ErrorMessages, w \in BOOLEAN}

\* the path model.export returns for a checkpoint
ExportPath(f) == File(f.stem, "onnx")

\* Advance leaving the loop one file early
AdvanceSkippingLast ==
    /\ idx' = idx + 1
    /\ pc' = IF idx + 1 >= Len(checkpoint_files) THEN "summary" ELSE "load"

\* the loop's next position after the file at idx
Advance ==
    /\ idx' = idx + 1
    /\ pc' = IF idx + 1 > Len(checkpoint_files) THEN "summary" ELSE "load"

\* RecordFailure that prints the failure and forgets to keep it
RecordFailureLost(printed, f, msg) ==
    /\ out' = Append(printed, [k |-> "failed", name |-> f, msg |-> msg])
    /\ failed_conversions' = failed_conversions

\* RecordFailure that keeps a fixed text in place of the exception's message
RecordFailureGeneric(printed, f, msg) ==
    /\ out' = Append(printed, [k |-> "failed", name |-> f, msg |-> "conversion failed"])
    /\ failed_conversions' = Append(failed_conversions, <<f, "conversion failed">>)

\* the except clause, convert_to_onnx.py:60-62
RecordFailure(printed, f, msg) ==
    /\ out' = Append(printed, [k |-> "failed", name |-> f, msg |-> msg])
    /\ failed_conversions' = Append(failed_conversions, <<f, msg>>)

\* convert_to_onnx.py:16-20
CheckDir ==
    /\ tool = "converter" /\ pc = "check_dir"
    /\ IF ~fs_dir
       THEN /\ out' = Append(out, [k |-> "dir_not_found"])
            /\ success' = FALSE
            /\ pc' = "exit"
       ELSE /\ pc' = "discover"
            /\ UNCHANGED <<out, success>>
    /\ UNCHANGED <<tool, fs_dir, fs_files, calls, checkpoint_files, idx,
                   successful_conversions, failed_conversions, exit_code,
                   onnx_files, todo>>

\* convert_to_onnx.py:23-36
Discover ==
    /\ tool = "converter" /\ pc = "discover"
    /\ \E found \in Orderings(Glob("pt")) :
        /\ checkpoint_files' = found
        /\ IF found = <<>>
           THEN /\ out' = Append(out, [k |-> "no_pt_found"])
                /\ success' = FALSE
                /\ pc' = "exit"
           ELSE /\ out' = out \o <<[k |-> "found", n |-> Len(found)]>>
                             \o [i \in 1..Len(found) |-> [k |-> "file", name |-> found[i]]]
                             \o <<[k |-> "starting"]>>
                /\ success' = success
                /\ pc' = "load"
    /\ idx' = 1
    /\ successful_conversions' = <<>>
    /\ failed_conversions' = <<>>
    /\ UNCHANGED <<tool, fs_dir, fs_files, calls, exit_code, onnx_files, todo>>

\* Load that tries the same file again after a failed load
LoadRetrying ==
    /\ tool = "converter" /\ pc = "load"
    /\ LET f == checkpoint_files[idx] IN
       \E r \in LoadResults :
        /\ calls' = Append(calls, [op |-> "load", file |-> f, ok |-> r.ok, msg |-> r.msg])
        /\ out' = Append(out, [k |-> "converting", name |-> f])
        /\ pc' = IF r.ok THEN "export" ELSE "load"
        /\ UNCHANGED <<idx, failed_conversions>>
    /\ UNCHANGED <<tool, fs_dir, fs_files, checkpoint_files, successful_conversions,
                   success, exit_code, onnx_files, todo>>

\* convert_to_onnx.py:38-43, and 60-62 when the load raises
Load ==
    /\ tool = "converter" /\ pc = "load"
    /\ LET f == checkpoint_files[idx] IN
       \E r \in LoadResults :
        /\ calls' = Append(calls, [op |-> "load", file |-> f, ok |-> r.ok, msg |-> r.msg])
        /\ IF r.ok
           THEN /\ out' = Append(out, [k |-> "converting", name |-> f])
                /\ pc' = "export"
                /\ UNCHANGED <<idx, failed_conversions>>
           ELSE /\ RecordFailure(Append(out, [k |-> "converting", name |-> f]), f, r.msg)
                /\ Advance
    /\ UNCHANGED <<tool, fs_dir, fs_files, checkpoint_files, successful_conversions,
                   success, exit_code, onnx_files, todo>>

\* convert_to_onnx.py:46-58, and 60-62 when the export raises
Export ==
    /\ tool = "converter" /\ pc = "export"
    /\ LET f == checkpoint_files[idx] IN
       \E r \in ExportResults :
        /\ calls' = Append(calls, [op |-> "export", file |-> f, ok |-> r.ok, msg |-> r.msg])
        /\ fs_files' = IF r.wrote THEN fs_files \cup {ExportPath(f)} ELSE fs_files
        /\ IF r.ok
           THEN /\ out' = out \o <<[k |-> "converted", name |-> f],
                                   [k |-> "onnx_file", path |-> ExportPath(f)]>>
                /\ successful_conversions' =
                       Append(successful_conversions, <<f, ExportPath(f)>>)
                /\ UNCHANGED failed_conversions
           ELSE /\ RecordFailure(out, f, r.msg)
                /\ UNCHANGED successful_conversions
        /\ Advance
    /\ UNCHANGED <<tool, fs_dir, checkpoint_files, success, exit_code, onnx_files, todo>>

\* the lines of convert_to_onnx.py:69-77
SuccessLines ==
    IF successful_conversions = <<>> THEN <<>>
    ELSE <<[k |-> "success_header"]>> \o
         [i \in 1..Len(successful_conversions) |->
            LET original  == successful_conversions[i][1]
                onnx_path == successful_conversions[i][2]
            IN  IF onnx_path \in fs_files
                THEN [k |-> "success_line", name |-> original, onnx |-> onnx_path,
                      sized |-> TRUE, size |-> SizeTenths(FileBytes[onnx_path.stem])]
                ELSE [k |-> "success_line", name |-> original, onnx |-> onnx_path,
                      sized |-> FALSE, size |-> 0]]

\* the lines of convert_to_onnx.py:79-82
FailureLines ==
    IF failed_conversions = <<>> THEN <<>>
    ELSE <<[k |-> "failure_header"]>> \o
         [i \in 1..Len(failed_conversions) |->
            [k |-> "failure_line", name |-> failed_conversions[i][1],
             msg |-> failed_conversions[i][2]]]

\* AllConverted that is satisfied with one converted file
AllConvertedIfAny == Len(successful_conversions) > 0

\* the value returned at convert_to_onnx.py:84
AllConverted == Len(failed_conversions) = 0

\* convert_to_onnx.py:64-84
Summary ==
    /\ tool = "converter" /\ pc = "summary"
    /\ out' = out \o <<[k |-> "summary"],
                       [k |-> "successful", n |-> Len(successful_conversions)],
                       [k |-> "failed_count", n |-> Len(failed_conversions)]>>
                  \o SuccessLines \o FailureLines
    /\ success' = AllConverted
    /\ pc' = "exit"
    /\ UNCHANGED <<tool, fs_dir, fs_files, calls, checkpoint_files, idx,
                   successful_conversions, failed_conversions, exit_code,
                   onnx_files, todo>>

\* ExitStatus that reports success whatever the flag
ExitStatusAlwaysZero(ok) == 0

\* the status handed to sys.exit at convert_to_onnx.py:88
ExitStatus(ok) == IF ok THEN 0 ELSE 1

\* convert_to_onnx.py:86-88
ConverterExit ==
    /\ tool = "converter" /\ pc = "exit"
    /\ exit_code' = ExitStatus(success)
    /\ pc' = "done"
    /\ UNCHANGED <<tool, fs_dir, fs_files, out, calls, checkpoint_files, idx,
                   successful_conversions, failed_conversions, success,
                   onnx_files, todo>>

\* the directory before convert_to_onnx.py runs
InitConverter ==
    /\ tool = "converter"
    /\ pc = "check_dir"
    /\ fs_dir \in BOOLEAN
    /\ \E S \in SUBSET ConverterNames :
        /\ Cardinality(S) <= MaxCheckpoints
        /\ fs_dir = FALSE => S = {}
        /\ fs_files = S
    /\ out = <<>>
    /\ calls = <<>>
    /\ checkpoint_files = <<>>
    /\ idx = 1
    /\ successful_conversions = <<>>
    /\ failed_conversions = <<>>
    /\ success = FALSE
    /\ exit_code = -1
    /\ onnx_files = <<>>
    /\ todo = <<>>

NextConverter == CheckDir \/ Discover \/ Load \/ Export \/ Summary \/ ConverterExit

SpecConverter == InitConverter /\ [][NextConverter]_vars

-----------------------------------------------------------------------------
(* The verifier: verify_onnx.py *)

\* the files that may lie in the directory before the verifier runs
VerifierNames ==
    {File("yolov8n", "onnx"), File("yolo11n", "onnx"), File("best", "onnx"),
     File("yolov8n", "pt")}

\* numbers of inputs a parsed model declares
InputCounts == {0, 1, 2}

\* the i-th tensor a model file declares
InputTensor(i) == [name |-> <<"images", i>>, dims |-> <<1, 3, 640, 640>>, elem_type |-> 1]
OutputTensor(i) == [name |-> <<"output", i>>, dims |-> <<1, 84, 8400>>, elem_type |-> 1]

\* results of onnx.load(str(onnx_path)): a model, or an exception
ParseResults ==
    {[ok |-> FALSE, msg |-> m] : m \in ErrorMessages}
    \cup {[ok |-> TRUE,
           input |-> [i \in 1..n |-> InputTensor(i)],
           output |-> [i \in 1..m |-> OutputTensor(i)],
           opset_import |-> o] :
            n \in InputCounts, m \in 0..MaxOutputs, o \in {<<>>, <<"11">>}}

\* the descriptor built from one tensor, verify_onnx.py:22-27 and 31-36
Describe(t) == [name |-> t.name, shape |-> t.dims, dtype |-> t.elem_type]

\* verify_onnx.py:14-44 applied to the result of onnx.load
analyze_onnx_model(r) ==
    IF r.ok
    THEN [inputs |-> [i \in 1..Len(r.input) |-> Describe(r.input[i])],
          outputs |-> [i \in 1..Len(r.output) |-> Describe(r.output[i])],
          opset_version |-> IF r.opset_import # <<>> THEN r.opset_import[1] ELSE "Unknown"]
    ELSE [error |-> r.msg]

\* list insertion keeping the order of PathLess
RECURSIVE Insert(_, _)
Insert(f, s) ==
    IF s = <<>> THEN <<f>>
    ELSE IF PathLess(f, Head(s)) THEN <<f>> \o s
    ELSE <<Head(s)>> \o Insert(f, Tail(s))

\* sorted that hands the list back in the order of the directory scan
unsorted(s) == s

\* sorted(onnx_files), verify_onnx.py:63
RECURSIVE sorted(_)
sorted(s) == IF s = <<>> THEN <<>> ELSE Insert(Head(s), sorted(Tail(s)))

\* Ordinal that prints the index as it is
OrdinalZeroBased(i) == i

\* the ordinal printed for the output at Python index i, verify_onnx.py:83
Ordinal(i) == i + 1

\* the input line, verify_onnx.py:76-78
InputLines(f, analysis) ==
    IF analysis.inputs # <<>>
    THEN <<[k |-> "input", file |-> f, name |-> analysis.inputs[1].name,
            shape |-> analysis.inputs[1].shape]>>
    ELSE <<>>

\* the output lines, verify_onnx.py:81-83
OutputLines(f, analysis) ==
    [j \in 1..Len(analysis.outputs) |->
        [k |-> "output", file |-> f, ordinal |-> Ordinal(j - 1),
         name |-> analysis.outputs[j].name, shape |-> analysis.outputs[j].shape]]

\* the lines printed for one analysis, verify_onnx.py:70-83
AnalysisLines(f, analysis) ==
    IF "error" \in DOMAIN analysis
    THEN <<[k |-> "parse_error", file |-> f, msg |-> analysis.error]>>
    ELSE <<[k |-> "opset", file |-> f, version |-> analysis.opset_version]>>
         \o InputLines(f, analysis) \o OutputLines(f, analysis)

\* verify_onnx.py:93-100
model_info ==
    << <<File("yolo11n", "onnx"), "Fastest inference, lowest memory">>,
       <<File("yolo11s", "onnx"), "Balance of speed and accuracy">>,
       <<File("yolov10n", "onnx"), "Latest architecture, efficient">>,
       <<File("yolov10s", "onnx"), "Good accuracy, moderate speed">>,
       <<File("yolov8n", "onnx"), "Proven performance, good speed">>,
       <<File("yolov9s", "onnx"), "High accuracy, slower inference">> >>

\* (checkpoints_dir / model_name).exists()
Exists(f) == fs_dir /\ f \in fs_files

\* TableRows that skips the files whose parse failed
TableRowsOfParsed ==
    LET Present(e) ==
            /\ Exists(e[1])
            /\ \E p \in 1..Len(calls) : calls[p].file = e[1] /\ calls[p].result.ok
        present == SelectSeq(model_info, Present)
    IN  [i \in 1..Len(present) |->
            [k |-> "row", name |-> present[i][1], size |-> get_file_size_mb(present[i][1]),
             params |-> "~2-9M", description |-> present[i][2]]]

\* the rows of the table, verify_onnx.py:102-106
TableRows ==
    LET Present(e) == Exists(e[1])
        present == SelectSeq(model_info, Present)
    IN  [i \in 1..Len(present) |->
            [k |-> "row", name |-> present[i][1], size |-> get_file_size_mb(present[i][1]),
             params |-> "~2-9M", description |-> present[i][2]]]

\* verify_onnx.py:49-63
Scan ==
    /\ tool = "verifier" /\ pc = "scan"
    /\ \E found \in Orderings(Glob("onnx")) :
        /\ onnx_files' = found
        /\ IF found = <<>>
           THEN /\ out' = out \o <<[k |-> "title"], [k |-> "no_onnx_found"]>>
                /\ success' = FALSE
                /\ pc' = "exit"
                /\ todo' = todo
           ELSE /\ out' = out \o <<[k |-> "title"], [k |-> "found", n |-> Len(found)]>>
                /\ success' = success
                /\ pc' = "report"
                /\ todo' = sorted(found)
    /\ idx' = 1
    /\ UNCHANGED <<tool, fs_dir, fs_files, calls, checkpoint_files,
                   successful_conversions, failed_conversions, exit_code>>

\* one pass of the loop, verify_onnx.py:63-85
Report ==
    /\ tool = "verifier" /\ pc = "report"
    /\ LET f == todo[idx] IN
       \E r \in ParseResults :
        /\ calls' = Append(calls, [op |-> "parse", file |-> f, result |-> r])
        /\ out' = out \o <<[k |-> "file", name |-> f],
                           [k |-> "size", file |-> f, size |-> get_file_size_mb(f)]>>
                      \o AnalysisLines(f, analyze_onnx_model(r))
                      \o <<[k |-> "blank", file |-> f]>>
    /\ idx' = idx + 1
    /\ pc' = IF idx + 1 > Len(todo) THEN "table" ELSE "report"
    /\ UNCHANGED <<tool, fs_dir, fs_files, checkpoint_files, successful_conversions,
                   failed_conversions, success, exit_code, onnx_files, todo>>

\* verify_onnx.py:87-108
Table ==
    /\ tool = "verifier" /\ pc = "table"
    /\ out' = out \o <<[k |-> "table_header"]>> \o TableRows \o <<[k |-> "table_end"]>>
    /\ pc' = "recommend"
    /\ UNCHANGED <<tool, fs_dir, fs_files, calls, checkpoint_files, idx,
                   successful_conversions, failed_conversions, success, exit_code,
                   onnx_files, todo>>

\* verify_onnx.py:109-118
Recommend ==
    /\ tool = "verifier" /\ pc = "recommend"
    /\ out' = out \o <<[k |-> "recommendations"], [k |-> "usage"]>>
    /\ success' = TRUE
    /\ pc' = "exit"
    /\ UNCHANGED <<tool, fs_dir, fs_files, calls, checkpoint_files, idx,
                   successful_conversions, failed_conversions, exit_code,
                   onnx_files, todo>>

\* VerifierExit that turns the returned value into the exit status
VerifierExitPropagating ==
    /\ tool = "verifier" /\ pc = "exit"
    /\ exit_code' = IF success THEN 0 ELSE 1
    /\ pc' = "done"
    /\ UNCHANGED <<tool, fs_dir, fs_files, out, calls, checkpoint_files, idx,
                   successful_conversions, failed_conversions, success,
                   onnx_files, todo>>

\* verify_onnx.py:120-121: the returned value is dropped and the script ends
VerifierExit ==
    /\ tool = "verifier" /\ pc = "exit"
    /\ exit_code' = 0
    /\ pc' = "done"
    /\ UNCHANGED <<tool, fs_dir, fs_files, out, calls, checkpoint_files, idx,
                   successful_conversions, failed_conversions, success,
                   onnx_files, todo>>

\* the directory before verify_onnx.py runs
InitVerifier ==
    /\ tool = "verifier"
    /\ pc = "scan"
    /\ fs_dir \in BOOLEAN
    /\ \E S \in SUBSET VerifierNames :
        /\ Cardinality(S) <= MaxFiles
        /\ fs_dir = FALSE => S = {}
        /\ fs_files = S
    /\ out = <<>>
    /\ calls = <<>>
    /\ checkpoint_files = <<>>
    /\ idx = 1
    /\ successful_conversions = <<>>
    /\ failed_conversions = <<>>
    /\ success = FALSE
    /\ exit_code = -1
    /\ onnx_files = <<>>
    /\ todo = <<>>

NextVerifier == Scan \/ Report \/ Table \/ Recommend \/ VerifierExit

SpecVerifier == InitVerifier /\ [][NextVerifier]_vars

-----------------------------------------------------------------------------
(* Properties of the converter, checked under SpecConverter *)

\* the requests of one kind made for one file
CallsOf(op, f) == { p \in 1..Len(calls) : calls[p].op = op /\ calls[p].file = f }

\* the set of the discovered checkpoint files
Discovered == { checkpoint_files[i] : i \in 1..Len(checkpoint_files) }

\* the external capability loaded and exported f without raising
Converted(f) == \E p \in CallsOf("export", f) : calls[p].ok

\* the external capability raised while loading or exporting f
Raised(f) ==
    \/ \E p \in CallsOf("load", f) : ~calls[p].ok
    \/ \E p \in CallsOf("export", f) : ~calls[p].ok

\* the loop has left the last discovered file behind
LoopFinished == checkpoint_files # <<>> /\ idx = Len(checkpoint_files) + 1

\* the attempt on every discovered file has finished
AllAttempted ==
    /\ LoopFinished
    /\ \A f \in Discovered : Converted(f) \/ Raised(f)

InSuccessful(f) == \E i \in 1..Len(successful_conversions) : successful_conversions[i][1] = f
InFailed(f) == \E i \in 1..Len(failed_conversions) : failed_conversions[i][1] = f

\* C1: when the converter has ended after discovering at least one checkpoint
\* file, its exit status is 0 if the external load and export succeeded for
\* every discovered file and 1 if they failed for at least one, whatever the
\* order of the files and whichever of them failed.
C1_ExitStatusTellsAllConverted ==
    (tool = "converter" /\ pc = "done" /\ checkpoint_files # <<>>) =>
        /\ (\A f \in Discovered : Converted(f)) => exit_code = 0
        /\ (\E f \in Discovered : ~Converted(f)) => exit_code = 1

\* C1 witness: a run over two files ended with status 1 after the first
\* file converted and the second failed.
C1_Witness ==
    /\ tool = "converter" /\ pc = "done" /\ Len(checkpoint_files) = 2
    /\ Converted(checkpoint_files[1])
    /\ Raised(checkpoint_files[2])
    /\ exit_code = 1

\* C2: the files the loop has already processed are each in exactly one of the
\* success list and the failure list, once, no file is in both lists, and when
\* the summary is printed the successful count plus the failed count equals
\* the number of discovered files.
C2_CountsPartitionDiscovered ==
    tool = "converter" =>
        /\ \A j \in 1..Len(checkpoint_files) :
            j < idx =>
                LET f == checkpoint_files[j] IN
                Cardinality({ i \in 1..Len(successful_conversions) :
                                successful_conversions[i][1] = f })
                + Cardinality({ i \in 1..Len(failed_conversions) :
                                failed_conversions[i][1] = f }) = 1
        /\ \A f \in Discovered : ~(InSuccessful(f) /\ InFailed(f))
        /\ \A i, j \in 1..Len(out) :
            (out[i].k = "successful" /\ out[j].k = "failed_count") =>
                out[i].n + out[j].n = Len(checkpoint_files)

\* C2 witness: the summary of a run over two files was printed with both
\* counts positive.
C2_Witness ==
    /\ tool = "converter" /\ Len(checkpoint_files) = 2
    /\ \E i, j \in 1..Len(out) :
        /\ out[i].k = "successful" /\ out[i].n = 1
        /\ out[j].k = "failed_count" /\ out[j].n = 1

\* C3: every exception the external load or export raised for a file is in
\* the failure list with that file's name and the exception's message, and
\* printed so, and once the loop has ended every discovered file has been
\* attempted: the files after a failed one too.
C3_FailureRecordedAndLoopGoesOn ==
    tool = "converter" =>
        /\ \A p \in 1..Len(calls) :
            ~calls[p].ok =>
                /\ \E i \in 1..Len(failed_conversions) :
                    failed_conversions[i] = <<calls[p].file, calls[p].msg>>
                /\ \E i \in 1..Len(out) :
                    /\ out[i].k = "failed"
                    /\ out[i].name = calls[p].file
                    /\ out[i].msg = calls[p].msg
        /\ \A j \in 1..Len(checkpoint_files) :
            (j < idx /\ j < Len(checkpoint_files) /\ Raised(checkpoint_files[j])
                /\ pc \in {"summary", "exit", "done"}) =>
                CallsOf("load", checkpoint_files[j + 1]) # {}
        /\ pc \in {"summary", "exit", "done"} /\ checkpoint_files # <<>> =>
            \A f \in Discovered : CallsOf("load", f) # {}

\* C3 witness: the load of the first file raised and the second file was
\* then loaded and exported.
C3_Witness ==
    /\ tool = "converter" /\ Len(checkpoint_files) >= 2
    /\ \E p \in CallsOf("load", checkpoint_files[1]) :
        ~calls[p].ok /\ calls[p].msg = "unsupported operator"
    /\ Converted(checkpoint_files[2])

\* no checkpoint file can be discovered
NoCheckpoints == ~fs_dir \/ Glob("pt") = {}

\* C4: when the directory is missing or holds no checkpoint file, the
\* converter makes no load and no export request, prints no summary, no step
\* changes the files of the directory, the failure is reported before the
\* routine returns, and the exit status is 1.
C4_NothingToConvert ==
    /\ [](tool = "converter" /\ NoCheckpoints =>
            /\ calls = <<>>
            /\ \A i \in 1..Len(out) : out[i].k \in {"dir_not_found", "no_pt_found"}
            /\ pc \in {"exit", "done"} =>
                out = <<[k |-> IF fs_dir THEN "no_pt_found" ELSE "dir_not_found"]>>
            /\ pc = "exit" => ~success
            /\ pc = "done" => exit_code = 1)
    /\ [][tool = "converter" /\ NoCheckpoints =>
            fs_files' = fs_files /\ fs_dir' = fs_dir]_vars

\* C4 witness: the converter ended in a directory that exists and holds a
\* file, but no checkpoint file.
C4_Witness ==
    /\ tool = "converter" /\ pc = "done"
    /\ fs_dir /\ fs_files # {} /\ Glob("pt") = {}
    /\ exit_code = 1

\* the lines that carry a count of the run
IsCountLine(line) == line.k \in {"found", "successful", "failed_count"}
IsSummaryLine(line) == line.k \in {"summary", "successful", "failed_count"}

\* C9 as stated: the total discovered count, the successful count and the
\* failed count are all printed only after the attempt on the last discovered
\* file has finished.
C9_AllCountsAfterLastAttempt ==
    tool = "converter" =>
        \A i \in 1..Len(out) : IsCountLine(out[i]) => AllAttempted

\* C9 amended: the total discovered count is printed before the first file is
\* attempted; the successful count and the failed count are printed only
\* after the attempt on the last discovered file has finished, and they are
\* the numbers of files converted and failed.
C9_SummaryAfterLastAttempt ==
    tool = "converter" =>
        /\ \A i \in 1..Len(out) :
            IsSummaryLine(out[i]) =>
                /\ AllAttempted
                /\ \A j \in 1..Len(out) : out[j].k \in {"converting", "found"} => j < i
        /\ \A i \in 1..Len(out) :
            out[i].k = "successful" =>
                out[i].n = Cardinality({ f \in Discovered : Converted(f) })
        /\ \A i \in 1..Len(out) :
            out[i].k = "failed_count" =>
                out[i].n = Cardinality({ f \in Discovered : Raised(f) })
        /\ calls # <<>> =>
            \E i \in 1..Len(out) :
                /\ out[i] = [k |-> "found", n |-> Len(checkpoint_files)]
                /\ \A j \in 1..Len(out) : out[j].k = "converting" => i < j
        /\ \A i \in 1..Len(out) : out[i].k = "found" => i = 1

\* C9 witness: the summary of a run over two files is printed, after the
\* discovered count and both attempts.
C9_Witness ==
    /\ tool = "converter" /\ Len(checkpoint_files) = 2
    /\ out[1].k = "found"
    /\ \E i \in 1..Len(out) : out[i].k = "failed_count" /\ out[i].n = 1
    /\ AllAttempted

\* C10: no discovered file is loaded twice or exported twice, an export is
\* requested only right after the load of the same file succeeded, a file
\* whose load or export raised gets no further request, and once the loop
\* has ended every discovered file has been loaded exactly once.
C10_LoadOnceExportAfterLoad ==
    tool = "converter" =>
        /\ \A f \in Discovered :
            /\ Cardinality(CallsOf("load", f)) <= 1
            /\ Cardinality(CallsOf("export", f)) <= 1
        /\ \A p \in 1..Len(calls) :
            calls[p].op = "export" =>
                /\ p > 1
                /\ calls[p - 1].op = "load"
                /\ calls[p - 1].file = calls[p].file
                /\ calls[p - 1].ok
        /\ \A p \in 1..Len(calls) :
            ~calls[p].ok => \A q \in (p + 1)..Len(calls) : calls[q].file # calls[p].file
        /\ \A p \in 1..Len(calls) : calls[p].file \in Discovered
        /\ pc \in {"summary", "exit", "done"} /\ checkpoint_files # <<>> =>
            \A f \in Discovered : Cardinality(CallsOf("load", f)) = 1

\* C10 witness: a run over two files has ended in which the export of the
\* first file raised and the second file was loaded and exported.
C10_Witness ==
    /\ tool = "converter" /\ pc = "done" /\ Len(checkpoint_files) = 2
    /\ \E p \in CallsOf("export", checkpoint_files[1]) : ~calls[p].ok
    /\ Converted(checkpoint_files[2])
    /\ Len(calls) = 4

-----------------------------------------------------------------------------
(* Properties of the verifier, checked under SpecVerifier *)

\* the kinds of line that belong to the report of one file
ReportKinds == {"size", "parse_error", "opset", "input", "output", "blank"}

\* the lines of one kind printed in the report of file f
FileLines(kind, f) ==
    LET Is(line) == line.k = kind /\ line.file = f
    IN  SelectSeq(out, Is)

\* the kinds of the lines of the report of file f, in the order printed
ReportOf(f) ==
    LET Is(line) == line.k \in ReportKinds /\ line.file = f
        lines == SelectSeq(out, Is)
    IN  [i \in 1..Len(lines) |-> lines[i].k]

\* the lines that open the report of a file
FileHeaders ==
    LET Is(line) == line.k = "file"
    IN  SelectSeq(out, Is)

\* the rows of the reference table
Rows ==
    LET Is(line) == line.k = "row"
    IN  SelectSeq(out, Is)

\* the output lines of a report are the outputs the model declares, in that
\* order, numbered from 1
OutputsListed(f, r) ==
    LET outs == FileLines("output", f) IN
    /\ Len(outs) = Len(r.output)
    /\ \A j \in 1..Len(outs) :
        /\ outs[j].ordinal = j
        /\ outs[j].name = r.output[j].name
        /\ outs[j].shape = r.output[j].dims

\* the report has one input line, for the first declared input
FirstInputListed(f, r) ==
    LET ins == FileLines("input", f) IN
    /\ Len(ins) = 1
    /\ r.input # <<>>
    /\ ins[1].name = r.input[1].name
    /\ ins[1].shape = r.input[1].dims

\* C5 as stated: the report of every file that parsed lists the declared
\* outputs, in order, with the ordinals 1, 2, ..., k, and exactly one input
\* line, which describes the first declared input.
C5_OutputsAndOneInputLine ==
    tool = "verifier" =>
        \A p \in 1..Len(calls) :
            calls[p].result.ok =>
                /\ OutputsListed(calls[p].file, calls[p].result)
                /\ FirstInputListed(calls[p].file, calls[p].result)

\* C5 amended: the report of every file that parsed lists the declared
\* outputs, in order, with the ordinals 1, 2, ..., k; it has exactly one
\* input line, which describes the first declared input, when the model
\* declares at least one input, and no input line when it declares none.
C5_OutputsAndFirstInputIfAny ==
    tool = "verifier" =>
        \A p \in 1..Len(calls) :
            calls[p].result.ok =>
                /\ OutputsListed(calls[p].file, calls[p].result)
                /\ IF calls[p].result.input # <<>>
                   THEN FirstInputListed(calls[p].file, calls[p].result)
                   ELSE FileLines("input", calls[p].file) = <<>>

\* C5 witness: a file that declares two inputs and two outputs was parsed
\* and its report printed.
C5_Witness ==
    /\ tool = "verifier"
    /\ \E p \in 1..Len(calls) :
        /\ calls[p].result.ok
        /\ Len(calls[p].result.input) = 2
        /\ Len(calls[p].result.output) = 2
        /\ Len(FileLines("output", calls[p].file)) = 2
        /\ Len(FileLines("input", calls[p].file)) = 1

\* the place of a file name in the hardcoded list, 0 when it is not there
InfoIndex(f) ==
    IF \E e \in 1..Len(model_info) : model_info[e][1] = f
    THEN CHOOSE e \in 1..Len(model_info) : model_info[e][1] = f
    ELSE 0

\* C6: once the reference table is printed, each of the six hardcoded names
\* has one row if a file of that name is in the directory and none if not,
\* the rows follow the hardcoded order and lie between the table's header
\* and end, and a hardcoded file whose parse failed has its row.
C6_RowIffCanonicalFilePresent ==
    (tool = "verifier" /\ pc \in {"recommend", "exit", "done"} /\ onnx_files # <<>>) =>
        LET rows == Rows IN
        /\ \A e \in 1..Len(model_info) :
            Cardinality({ i \in 1..Len(rows) : rows[i].name = model_info[e][1] })
                = IF fs_dir /\ model_info[e][1] \in fs_files THEN 1 ELSE 0
        /\ \A i \in 1..Len(rows) : InfoIndex(rows[i].name) # 0
        /\ \A i, j \in 1..Len(rows) :
            i < j => InfoIndex(rows[i].name) < InfoIndex(rows[j].name)
        /\ \A i \in 1..Len(rows) :
            rows[i].description = model_info[InfoIndex(rows[i].name)][2]
        /\ \A i \in 1..Len(out) :
            out[i].k = "row" =>
                /\ \E h \in 1..(i - 1) : out[h].k = "table_header"
                /\ \E h \in (i + 1)..Len(out) : out[h].k = "table_end"
        /\ \A p \in 1..Len(calls) :
            (~calls[p].result.ok /\ InfoIndex(calls[p].file) # 0) =>
                \E i \in 1..Len(rows) : rows[i].name = calls[p].file

\* C6 witness: the table has two rows, and the parse of the file of its
\* first row had failed.
C6_Witness ==
    /\ tool = "verifier" /\ pc = "done"
    /\ Len(Rows) = 2
    /\ \E p \in 1..Len(calls) : ~calls[p].result.ok /\ calls[p].file = Rows[1].name

\* C7: the files are reported in the sorted order of their names; the report
\* of a file whose parse failed is its size and the captured error and
\* nothing else; once the loop has ended every exported file of the
\* directory has its own report, and the run ends with the reference table
\* and the recommendations printed after the last report.
C7_SortedReportsAndFailureIsolated ==
    tool = "verifier" =>
        LET headers == FileHeaders IN
        /\ \A i, j \in 1..Len(headers) :
            i < j => PathLess(headers[i].name, headers[j].name)
        /\ \A i \in 1..Len(headers) :
            /\ headers[i].name \in Glob("onnx")
            /\ i <= Len(calls)
            /\ calls[i].file = headers[i].name
        /\ Len(calls) = Len(headers)
        /\ \A p \in 1..Len(calls) :
            LET report == ReportOf(calls[p].file) IN
            IF calls[p].result.ok
            THEN /\ Len(report) >= 3
                 /\ report[1] = "size"
                 /\ report[2] = "opset"
                 /\ report[Len(report)] = "blank"
                 /\ \A i \in 1..Len(report) : report[i] # "parse_error"
            ELSE /\ report = <<"size", "parse_error", "blank">>
                 /\ FileLines("parse_error", calls[p].file)[1].msg = calls[p].result.msg
        /\ (pc \in {"table", "recommend", "exit", "done"} /\ onnx_files # <<>>) =>
            { headers[i].name : i \in 1..Len(headers) } = Glob("onnx")
        /\ (pc = "done" /\ onnx_files # <<>>) =>
            \E t, r \in 1..Len(out) :
                /\ out[t].k = "table_header"
                /\ out[r].k = "recommendations"
                /\ t < r
                /\ \A i \in 1..Len(out) :
                    (out[i].k = "file" \/ out[i].k \in ReportKinds) => i < t

\* C7 witness: the directory scan listed two files in the reverse of their
\* sorted order, the parse of the first one reported failed, the second one
\* was parsed, and the run ended.
C7_Witness ==
    /\ tool = "verifier" /\ pc = "done"
    /\ Len(onnx_files) = 2
    /\ PathLess(onnx_files[2], onnx_files[1])
    /\ Len(calls) = 2
    /\ ~calls[1].result.ok
    /\ calls[2].result.ok

\* C8: when the directory is missing or holds no exported file, the verifier
\* makes no parse request, prints its title and "No ONNX files found!" and
\* nothing else (no report, no table, no recommendations), and ends with the
\* status of a script that raised no error.
C8_NoExportedFiles ==
    (tool = "verifier" /\ Glob("onnx") = {}) =>
        /\ calls = <<>>
        /\ \A i \in 1..Len(out) : out[i].k \in {"title", "no_onnx_found"}
        /\ pc \in {"exit", "done"} => out = <<[k |-> "title"], [k |-> "no_onnx_found"]>>
        /\ pc = "exit" => ~success
        /\ pc = "done" => exit_code = 0

\* C8 witness: the verifier ended after finding the directory missing.
C8_Witness ==
    /\ tool = "verifier" /\ pc = "done"
    /\ ~fs_dir
    /\ exit_code = 0

====
